---------------------------- MODULE Spec2Model ----------------------------
(***************************************************************************)
(* Verification model of five kernels of the library:                      *)
(*   - acb_theta_dist_a0      (src/src/acb_theta/dist_a0.c)                *)
(*   - the fq_zech neg test   (src/fq_zech/test/t-neg.c)                   *)
(*   - _padic_log_bound, padic_log (src/padic/log.c)                       *)
(*   - ca_check_equal         (src/ca/check_equal.c)                       *)
(* Each kernel has its own specification over its own group of variables;  *)
(* the variables of the other kernels stay at their idle values.           *)
(***************************************************************************)
EXTENDS Integers, Sequences, FiniteSets, TLC

VARIABLES
    \* acb_theta_dist_a0: arguments, locals, output buffer
    tau, z, prec, Yinv, cho, v, w, a, dist, writes, pc, prev, prevKind,
    \* acb_theta_dist_a0 with the loop bodies run by threads
    tpc, overlap, first,
    \* _padic_log_bound: arguments, locals, result
    lb_v, lb_N, lb_p, lb_b, lb_c, lb_pc, lb_ret, lb_ovf,
    \* padic_log: context, arguments, result
    pl_p, pl_N, pl_op, pl_rop, pl_rop0, pl_ans, pl_pc, pl_call,
    \* ca_check_equal: arguments, their values at entry, result
    ca_x, ca_y, ca_x0, ca_y0, ca_res, ca_pc,
    \* the fq_zech neg test program: context, locals, loop counter, exit
    fz_ctx, fz_a, fz_b, fz_c, fz_c1, fz_c2, fz_i, fz_j, fz_pc, fz_result

distVars == <<tau, z, prec, Yinv, cho, v, w, a, dist, writes, pc, prev, prevKind>>
parVars == <<tpc, overlap, first>>
lbVars == <<lb_v, lb_N, lb_p, lb_b, lb_c, lb_pc, lb_ret, lb_ovf>>
plVars == <<pl_p, pl_N, pl_op, pl_rop, pl_rop0, pl_ans, pl_pc, pl_call>>
caVars == <<ca_x, ca_y, ca_x0, ca_y0, ca_res, ca_pc>>
fzVars == <<fz_ctx, fz_a, fz_b, fz_c, fz_c1, fz_c2, fz_i, fz_j, fz_pc, fz_result>>
vars == <<distVars, parVars, lbVars, plVars, caVars, fzVars>>

(***************************************************************************)
(* Bounds of the model.                                                    *)
(***************************************************************************)
\* binary digits after the point of the fixed grid every number lives on
FracBits == 8
\* working precisions tried: PrecMin .. PrecMax bits
PrecMin == 2
PrecMax == 5
\* worker threads that run loop bodies at the same time
ParThreads == 2
\* width of a machine word (the library's FLINT_BITS, scaled down)
FLINT_BITS == 7
\* largest precision N of a p-adic context
PadicNMax == 3
\* largest numerator and denominator of a rational handed to ca_check_equal
CaNumMax == 2
CaDenMax == 3
\* runs of the three loops of the fq_zech neg test (10, 200 and 2000 in the
\* program, scaled down)
FzCtxRuns == 1
FzAliasRuns == 2
FzSubRuns == 2

(***************************************************************************)
(* Integer helpers.                                                        *)
(***************************************************************************)
Pow2(k) == IF k <= 0 THEN 1 ELSE 2^k

Abs(n) == IF n < 0 THEN -n ELSE n

Sgn(n) == IF n < 0 THEN -1 ELSE IF n = 0 THEN 0 ELSE 1

Max(m, n) == IF m >= n THEN m ELSE n

Min(m, n) == IF m <= n THEN m ELSE n

CeilDiv(m, n) == (m + n - 1) \div n

\* the number of binary digits of n: the least k with n < 2^k
BitLen(n) == IF n <= 0 THEN 0 ELSE CHOOSE k \in 1..31 : 2^(k - 1) <= n /\ n \div 2 < 2^(k - 1)

\* floor of the square root of n >= 0: first to a multiple of step, about
\* the fourth root of n, then exactly
ISqrt(n) ==
    LET step == Pow2(BitLen(n) \div 4)
        c == CHOOSE c \in 0..(4 * step) :
                 (c * step) * (c * step) <= n /\ n < ((c + 1) * step) * ((c + 1) * step)
    IN  CHOOSE r \in (c * step)..((c + 1) * step - 1) : r * r <= n /\ n < (r + 1) * (r + 1)

One == Pow2(FracBits)

(***************************************************************************)
(* Ball arithmetic (the certified-arithmetic substrate). A ball is a       *)
(* record [mid, rad] of integers counting units of 2^-FracBits. A midpoint *)
(* keeps at most prec significant bits; it is rounded towards zero and the *)
(* radius grows by one unit in the last place when the rounding is         *)
(* inexact. Radii are exact sums, rounded up to the grid.                  *)
(***************************************************************************)
Ball(m, r) == [mid |-> m, rad |-> r]

Exact(m) == Ball(m, 0)

Lo(x) == x.mid - x.rad

Hi(x) == x.mid + x.rad

\* a ball has a radius >= 0; an operation on anything else gives NotABall
IsBall(x) == x.rad >= 0

NotABall == Ball(0, -1)

\* num / (den * 2^s) rounded to prec bits on the grid: [mid, err]
RoundQ(num, den, s, p) ==
    LET n == Abs(num)
        x == n \div den
        sticky == (n % den) # 0
        k == Max(BitLen(x) - p, s - FracBits)
        q == x \div Pow2(k)
        ulp == Pow2(k - (s - FracBits))
        inexact == sticky \/ (q * Pow2(k) # x)
    IN [mid |-> Sgn(num) * q * ulp, err |-> IF inexact THEN ulp ELSE 0]

arb_add(x, y, p) ==
    IF ~(IsBall(x) /\ IsBall(y)) THEN NotABall
    ELSE LET r == RoundQ(x.mid + y.mid, 1, FracBits, p)
         IN Ball(r.mid, x.rad + y.rad + r.err)

arb_sub(x, y, p) ==
    IF ~(IsBall(x) /\ IsBall(y)) THEN NotABall
    ELSE LET r == RoundQ(x.mid - y.mid, 1, FracBits, p)
         IN Ball(r.mid, x.rad + y.rad + r.err)

arb_mul(x, y, p) ==
    IF ~(IsBall(x) /\ IsBall(y)) THEN NotABall
    ELSE LET r == RoundQ(x.mid * y.mid, 1, 2 * FracBits, p)
             e == Abs(x.mid) * y.rad + Abs(y.mid) * x.rad + x.rad * y.rad
         IN Ball(r.mid, CeilDiv(e, One) + r.err)

arb_sqr(x, p) == arb_mul(x, x, p)

\* 1 / y for a ball that excludes zero
arb_inv(y, p) ==
    IF ~IsBall(y) \/ Abs(y.mid) <= y.rad THEN NotABall
    ELSE LET m == Abs(y.mid)
             r == RoundQ(Sgn(y.mid) * One * One * One, m, 2 * FracBits, p)
             e == IF y.rad = 0 THEN 0
                  ELSE CeilDiv(y.rad * One * One, m * (m - y.rad))
         IN Ball(r.mid, e + r.err)

arb_div(x, y, p) == arb_mul(x, arb_inv(y, p), p)

\* square root of a ball of non-negative numbers
arb_sqrt(x, p) ==
    IF ~IsBall(x) \/ x.mid < 0 \/ (x.rad > 0 /\ x.mid <= x.rad) THEN NotABall
    ELSE LET n == x.mid * One
             s == ISqrt(n)
             r0 == RoundQ(s, 1, FracBits, p)
             ulp == Pow2(Max(BitLen(s) - p, 0))
             err == IF r0.err # 0 THEN r0.err ELSE IF s * s # n THEN ulp ELSE 0
             e == IF x.rad = 0 THEN 0
                  ELSE CeilDiv(x.rad * One, 2 * ISqrt((x.mid - x.rad) * One))
         IN Ball(r0.mid, e + err)


(***************************************************************************)
(* Vectors are sequences of balls, matrices sequences of rows. A complex   *)
(* ball is a record [re, im] of balls.                                     *)
(***************************************************************************)
\* the sequence <<F(1), ..., F(n)>>
SeqOf(F(_), n) == [i \in 1..n |-> F(i)] \o <<>>

RECURSIVE SumTo(_, _)
SumTo(f, n) == IF n = 0 THEN 0 ELSE f[n] + SumTo(f, n - 1)

\* arb_dot: the dot product, rounded once
arb_dot(x, y, p) ==
    LET n == Min(Len(x), Len(y))
        r == RoundQ(SumTo(SeqOf(LAMBDA i : x[i].mid * y[i].mid, n), n), 1, 2 * FracBits, p)
        e == SumTo(SeqOf(LAMBDA i : Abs(x[i].mid) * y[i].rad + Abs(y[i].mid) * x[i].rad
                                     + x[i].rad * y[i].rad, n), n)
    IN Ball(r.mid, CeilDiv(e, One) + r.err)

_arb_vec_add(x, y, g, p) == SeqOf(LAMBDA i : arb_add(x[i], y[i], p), g)

arb_mat_vector_mul_col(M, x, p) == SeqOf(LAMBDA i : arb_dot(M[i], x, p), Len(M))

acb_mat_nrows(t) == Len(t)

acb_mat_get_imag(t) == SeqOf(LAMBDA i : SeqOf(LAMBDA j : t[i][j].im, Len(t)), Len(t))

_acb_vec_get_imag(x, g) == SeqOf(LAMBDA i : x[i].im, g)

_acb_vec_get_real(x, g) == SeqOf(LAMBDA i : x[i].re, g)

_arb_vec_init(g) == SeqOf(LAMBDA i : Exact(0), g)

\* Gauss-Jordan elimination of the augmented matrix [M | I], column k onwards
RECURSIVE GaussJordan(_, _, _)
GaussJordan(A, k, p) ==
    IF k > Len(A) THEN A
    ELSE LET g == Len(A)
             piv == arb_inv(A[k][k], p)
             rk == SeqOf(LAMBDA j : IF j = k THEN Exact(One) ELSE arb_mul(A[k][j], piv, p), 2 * g)
             A2 == SeqOf(LAMBDA i : IF i = k THEN rk
                        ELSE SeqOf(LAMBDA j : IF j = k THEN Exact(0)
                                 ELSE arb_sub(A[i][j], arb_mul(A[i][k], rk[j], p), p), Len(rk)), g)
         IN GaussJordan(A2, k + 1, p)

\* certified inverse of a positive-definite matrix
arb_mat_inv(M, p) ==
    LET g == Len(M)
        A == SeqOf(LAMBDA i : SeqOf(LAMBDA j : IF j <= g THEN M[i][j]
                  ELSE IF j - g = i THEN Exact(One) ELSE Exact(0), 2 * g), g)
        R == GaussJordan(A, 1, p)
    IN SeqOf(LAMBDA i : SeqOf(LAMBDA j : R[i][j + g], g), g)

\* the lower-triangular L with L * transpose(L) = M, row by row: the next
\* row, given the rows L above it and its entries r left of the next column
RECURSIVE ChoRow(_, _, _, _)
ChoRow(M, L, r, p) ==
    IF Len(r) > Len(L) THEN r \o SeqOf(LAMBDA k : Exact(0), Len(M) - Len(r))
    ELSE LET i == Len(L) + 1
             j == Len(r) + 1
             s == arb_dot(r, IF j = i THEN r ELSE L[j], p)
             d == arb_sub(M[i][j], s, p)
         IN ChoRow(M, L, Append(r, IF i = j THEN arb_sqrt(d, p) ELSE arb_div(d, L[j][j], p)), p)

RECURSIVE ChoRows(_, _, _)
ChoRows(M, L, p) ==
    IF Len(L) >= Len(M) THEN L ELSE ChoRows(M, Append(L, ChoRow(M, L, <<>>, p)), p)

\* Cholesky factor of the imaginary part of tau
acb_theta_eld_cho(t, p) == ChoRows(acb_mat_get_imag(t), <<>>, p)

\* bit i of the characteristic selects 0 or 1/2 for coordinate i
acb_theta_char_get_arb(ch, g) ==
    SeqOf(LAMBDA i : Exact(((ch \div Pow2(i - 1)) % 2) * (One \div 2)), g)

\* nearest integer to x.mid / d.mid, for a ball d of positive numbers
NearestMultiple(x, d) == (2 * x.mid + d.mid) \div (2 * d.mid)

\* the lattice point nearest to x, coordinate by coordinate: n[1..i]
RECURSIVE NearestPoint(_, _, _, _)
NearestPoint(x, C, i, p) ==
    IF i = 0 THEN <<>>
    ELSE LET n == NearestPoint(x, C, i - 1, p)
             s == arb_dot(SeqOf(LAMBDA j : C[i][j], i - 1),
                          SeqOf(LAMBDA j : Exact(n[j] * One), i - 1), p)
         IN Append(n, NearestMultiple(arb_sub(x[i], s, p), C[i][i]))

\* squared norm of x - C * n
acb_theta_dist_pt(x, C, n, p) ==
    LET g == Min(Len(x), Len(n))
        Cn == arb_mat_vector_mul_col(C, SeqOf(LAMBDA j : Exact(n[j] * One), g), p)
        e == SeqOf(LAMBDA i : arb_sub(x[i], Cn[i], p), g)
    IN arb_dot(e, e, p)

\* squared distance from x to the lattice C * Z^g
acb_theta_dist_lat(x, C, p) ==
    IF Len(x) = 0 THEN Exact(0)
    ELSE acb_theta_dist_pt(x, C, NearestPoint(x, C, Len(x), p), p)

(***************************************************************************)
(* acb_theta_dist_a0(dist, z, tau, prec).                                  *)
(* Inputs: tau with a positive-definite (diagonal) imaginary part, z, and  *)
(* the working precision; all entries are exact numbers on the grid.       *)
(***************************************************************************)
Dims == 1..4

\* the caller's output buffer, with one slot beyond the largest 2^g
DistSlots == 0..16

Complex(re, im) == [re |-> Exact(re), im |-> Exact(im)]

\* tau = re * Id + i * diag(ys)
DiagTau(ys, re) ==
    [i \in 1..Len(ys) |-> [j \in 1..Len(ys) |->
        IF i = j THEN Complex(re, ys[i]) ELSE Complex(0, 0)]]

TauSet ==
    {DiagTau(<<y>>, re) : y \in {One, 2 * One, 3 * One, 4 * One}, re \in {0, One \div 4}}
    \cup {DiagTau(ys, 0) : ys \in {<<One, One>>, <<One, 2 * One>>, <<3 * One, 2 * One>>}}
    \cup {DiagTau(ys, 0) : ys \in {<<One, One, One>>, <<2 * One, One, 3 * One>>}}
    \cup {DiagTau(ys, 0) : ys \in {<<One, 2 * One, One, 4 * One>>}}

ZSet(g) ==
    LET ims == CASE g = 1 -> {<<0>>, <<One \div 2>>, <<One>>, <<3 * One>>}
                 [] g = 2 -> {<<0, 0>>, <<One, One \div 2>>, <<3 * One, One>>}
                 [] g = 3 -> {<<0, 0, 0>>, <<One, One \div 2, 3 * One>>}
                 [] OTHER -> {<<0, 0, 0, 0>>, <<One \div 2, One, 0, 3 * One>>}
    IN {[i \in 1..g |-> Complex(re, im[i])] : im \in ims, re \in {0, One \div 4}}

Precs == PrecMin..PrecMax

\* a slot of the buffer that the call has not written
Unset == Ball(0, -1)

Cleared == <<>>

\* slong n = 1 << g
NSlots(g) == Pow2(g)

\* variants of the loop condition: one iteration too many, one too few
LoopCondPastEnd(k, n) == k <= n

LoopCondShort(k, n) == k < n - 1

\* the loop condition a < n
LoopCond(k, n) == k < n

\* variant of the loop body that leaves out the characteristic (line 37)
IterWNoChar(k, g, vv, C, p) == arb_mat_vector_mul_col(C, vv, p)

\* the vector handed to acb_theta_dist_lat in iteration k
IterW(k, g, vv, C, p) ==
    LET w1 == acb_theta_char_get_arb(k, g)
        w2 == _arb_vec_add(vv, w1, g, p)
    IN arb_mat_vector_mul_col(C, w2, p)

\* variant that reads the real part of z
ZPartReal(zz, g) == _acb_vec_get_real(zz, g)

\* the part of z that the function reads
ZPart(zz, g) == _acb_vec_get_imag(zz, g)

\* variant of the setup that leaves out the product with Yinv (line 33)
SetupVNoInv(Yi, zz, p) == _acb_vec_get_imag(zz, Len(Yi))

\* v = Yinv * Im(z)
SetupV(Yi, zz, p) == arb_mat_vector_mul_col(Yi, ZPart(zz, Len(Yi)), p)

\* variant in which every iteration writes the first slot
SlotFirst(k) == 0

\* the slot iteration k stores into
SlotOf(k) == k

InitDist ==
    /\ tau \in TauSet
    /\ z \in ZSet(Len(tau))
    /\ prec \in Precs
    /\ Yinv = Cleared /\ cho = Cleared /\ v = Cleared /\ w = Cleared
    /\ a = 0
    /\ dist = [k \in DistSlots |-> Unset]
    /\ writes = [k \in DistSlots |-> 0]
    /\ pc = "start"
    /\ prev = [k \in DistSlots |-> Unset]
    /\ prevKind = "none"

\* the state of acb_theta_dist_a0 while another kernel runs
InitDistIdle ==
    /\ tau = <<>> /\ z = <<>> /\ prec = 0
    /\ Yinv = Cleared /\ cho = Cleared /\ v = Cleared /\ w = Cleared
    /\ a = 0 /\ dist = <<>> /\ writes = <<>> /\ pc = "idle"
    /\ prev = <<>> /\ prevKind = "none"

IdleLb ==
    /\ lb_v = 0 /\ lb_N = 0 /\ lb_p = 0 /\ lb_b = 0 /\ lb_c = 0
    /\ lb_pc = "idle" /\ lb_ret = 0 /\ lb_ovf = FALSE

IdlePl ==
    /\ pl_p = 0 /\ pl_N = 0 /\ pl_op = <<>> /\ pl_rop = <<>> /\ pl_rop0 = <<>>
    /\ pl_ans = -1 /\ pl_pc = "idle" /\ pl_call = <<>>

IdleCa ==
    /\ ca_x = <<>> /\ ca_y = <<>> /\ ca_x0 = <<>> /\ ca_y0 = <<>>
    /\ ca_res = "none" /\ ca_pc = "idle"

IdleFz ==
    /\ fz_ctx = <<>> /\ fz_a = -1 /\ fz_b = -1 /\ fz_c = -1 /\ fz_c1 = -1 /\ fz_c2 = -1
    /\ fz_i = 0 /\ fz_j = 0 /\ fz_pc = "idle" /\ fz_result = -1

\* the kernels other than acb_theta_dist_a0 are idle
IdleRest == IdleLb /\ IdlePl /\ IdleCa /\ IdleFz

restVars == <<lbVars, plVars, caVars, fzVars>>

IdlePar == tpc = <<>> /\ overlap = FALSE /\ first = -1

\* lines 17-33: allocate the locals, compute Yinv, cho and v
Setup ==
    /\ pc = "start"
    /\ Yinv' = arb_mat_inv(acb_mat_get_imag(tau), prec)
    /\ cho' = acb_theta_eld_cho(tau, prec)
    /\ v' = SetupV(Yinv', z, prec)
    /\ w' = _arb_vec_init(acb_mat_nrows(tau))
    /\ a' = 0
    /\ pc' = "loop"
    /\ UNCHANGED <<tau, z, prec, dist, writes, prev, prevKind>>

\* lines 35-41: one iteration of the characteristic loop
LoopBody ==
    /\ pc = "loop"
    /\ LoopCond(a, NSlots(acb_mat_nrows(tau)))
    /\ SlotOf(a) \in DistSlots
    /\ w' = IterW(a, acb_mat_nrows(tau), v, cho, prec)
    /\ dist' = [dist EXCEPT ![SlotOf(a)] = acb_theta_dist_lat(w', cho, prec)]
    /\ writes' = [writes EXCEPT ![SlotOf(a)] = @ + 1]
    /\ a' = a + 1
    /\ UNCHANGED <<tau, z, prec, Yinv, cho, v, pc, prev, prevKind>>

\* lines 35, 43-46: the loop ends, the locals are released
LoopExit ==
    /\ pc = "loop"
    /\ ~LoopCond(a, NSlots(acb_mat_nrows(tau)))
    /\ Yinv' = Cleared /\ cho' = Cleared /\ v' = Cleared /\ w' = Cleared
    /\ pc' = "done"
    /\ UNCHANGED <<tau, z, prec, a, dist, writes, prev, prevKind>>

\* integer vectors a caller may shift z by
ShiftSet(g) ==
    {[i \in 1..g |-> s] : s \in {1, -2}} \cup {[i \in 1..g |-> IF i = 1 THEN 1 ELSE 0]}

Recall(kind) ==
    /\ pc = "done"
    /\ prevKind = "none"
    /\ prev' = dist
    /\ prevKind' = kind
    /\ dist' = [k \in DistSlots |-> Unset]
    /\ writes' = [k \in DistSlots |-> 0]
    /\ a' = 0
    /\ pc' = "start"
    /\ UNCHANGED <<tau, Yinv, cho, v, w>>

\* the caller calls again with z shifted by an integer vector
CallShifted ==
    /\ Recall("shift")
    /\ \E s \in ShiftSet(Len(z)) :
          z' = [i \in 1..Len(z) |->
                   [re |-> Exact(z[i].re.mid + s[i] * One), im |-> z[i].im]]
    /\ UNCHANGED prec

\* the caller calls again with a strictly higher working precision
CallHigherPrec ==
    /\ Recall("prec")
    /\ \E p \in Precs : p > prec /\ prec' = p
    /\ UNCHANGED z

Init == InitDist /\ IdlePar /\ IdleRest

Next ==
    \/ Setup /\ UNCHANGED <<parVars, restVars>>
    \/ LoopBody /\ UNCHANGED <<parVars, restVars>>
    \/ LoopExit /\ UNCHANGED <<parVars, restVars>>
    \/ CallShifted /\ UNCHANGED <<parVars, restVars>>
    \/ CallHigherPrec /\ UNCHANGED <<parVars, restVars>>

Spec == Init /\ [][Next]_vars

(***************************************************************************)
(* Properties of acb_theta_dist_a0, checked under Spec.                    *)
(***************************************************************************)
Dim == acb_mat_nrows(tau)

Chars == 0..(Pow2(Dim) - 1)

\* the distance for characteristic k: the offset vector from the bits of
\* k, plus vv, multiplied by the Cholesky factor C, handed to dist_lat
DistOfChar(k, vv, C) ==
    LET x == _arb_vec_add(vv, acb_theta_char_get_arb(k, Dim), Dim, prec)
    IN acb_theta_dist_lat(arb_mat_vector_mul_col(C, x, prec), C, prec)

\* C1: for g in 1..4 the call writes exactly the slots 0 .. 2^g - 1, each
\* once and none beyond, and slot k holds the lattice distance of
\* characteristic k, computed with v = Yinv * Im(z) and the Cholesky factor.
C1_SlotsWritten ==
    LET Y == acb_mat_get_imag(tau)
        C == acb_theta_eld_cho(tau, prec)
        vv == arb_mat_vector_mul_col(arb_mat_inv(Y, prec), _acb_vec_get_imag(z, Dim), prec)
    IN /\ Dim \in Dims /\ Len(C) = Dim /\ Len(vv) = Dim
       /\ \A k \in DistSlots \ Chars : writes[k] = 0 /\ dist[k] = Unset
       /\ \A k \in Chars :
             /\ writes[k] <= 1
             /\ (pc = "done" => writes[k] = 1)
             /\ (writes[k] = 0 => dist[k] = Unset)
             /\ (writes[k] = 1 => dist[k] = DistOfChar(k, vv, C))

C1_Witness ==
    /\ pc = "done" /\ Dim = 4
    /\ \A k \in 0..15 : writes[k] = 1 /\ dist[k] # Unset
    /\ \E k \in 0..15 : dist[k] # dist[0]

\* C3: every entry returned is a non-negative certified value: its radius
\* is >= 0 and the lower end of its enclosure is >= -epsilon, epsilon being
\* the certified error (the radius).
C3_NonNegative ==
    pc = "done" =>
        \A k \in Chars : dist[k].rad >= 0 /\ Lo(dist[k]) >= -dist[k].rad

C3_Witness ==
    /\ pc = "done" /\ Dim = 2
    /\ \E k \in Chars : dist[k].rad > 0 /\ Lo(dist[k]) < 0
    /\ \E k \in Chars : dist[k].rad > 0 /\ Lo(dist[k]) > 0

\* the two sequences agree up to a permutation of the slots in S
SamePermuted(d1, d2, S) ==
    \A b \in {d1[k] : k \in S} \cup {d2[k] : k \in S} :
        Cardinality({k \in S : d1[k] = b}) = Cardinality({k \in S : d2[k] = b})

\* C4: z and z shifted by an integer vector give the same distance
\* sequence up to a permutation of the characteristics.
C4_ShiftSymmetry ==
    (pc = "done" /\ prevKind = "shift") => SamePermuted(prev, dist, Chars)

C4_Witness ==
    /\ pc = "done" /\ prevKind = "shift" /\ Dim = 2
    /\ \E i \in 1..Dim : z[i].re.mid # 0 /\ z[i].im.mid # 0
    /\ \E k \in Chars : dist[k].mid > 0 /\ dist[k] # dist[0]

IsUnitTauZeroZ == tau = DiagTau(<<One>>, 0) /\ z = <<Complex(0, 0)>>

\* |x.mid - m| is below the working precision's resolution and m is in x
Approx(x, m) == Abs(x.mid - m) * Pow2(prec) <= One /\ Lo(x) <= m /\ m <= Hi(x)

\* C5: for g = 1, tau = i, z = 0 the two distances have midpoints
\* approximately 0 (a = 0) and 0.25 (a = 1).
C5_UnitTau ==
    (pc = "done" /\ IsUnitTauZeroZ) =>
        Approx(dist[0], 0) /\ Approx(dist[1], One \div 4)

C5_Witness ==
    pc = "done" /\ IsUnitTauZeroZ /\ dist[0].mid = 0 /\ dist[1].mid = One \div 4

\* x lies within y
Within(x, y) == Lo(y) <= Lo(x) /\ Hi(x) <= Hi(y)

\* C6 as stated: a strictly higher working precision gives, for every
\* characteristic, an enclosure contained in the lower-precision one.
C6_PrecisionNested ==
    (pc = "done" /\ prevKind = "prec") => \A k \in Chars : Within(dist[k], prev[k])

\* The exact squared distance of characteristic k for a diagonal Im(tau)
\* with integer entries y_i and Im(z_i) a multiple of 1/2:
\* sum_i y_i * dist(Im(z_i)/y_i + bit_i/2, Z)^2, as the fraction num / den.
YInt(i) == tau[i][i].im.mid \div One

ExactTerm(k, i) ==
    LET n == 2 * z[i].im.mid + ((k \div Pow2(i - 1)) % 2) * YInt(i) * One
        d == 2 * YInt(i) * One
        r == n % d
        rr == Min(r, d - r)
        m == rr \div One
    IN [num |-> m * m, den |-> 4 * YInt(i)]

RECURSIVE ExactSum(_, _)
ExactSum(k, i) ==
    IF i = 0 THEN [num |-> 0, den |-> 1]
    ELSE LET s == ExactSum(k, i - 1)
             t == ExactTerm(k, i)
         IN [num |-> s.num * t.den + t.num * s.den, den |-> s.den * t.den]

\* the ball x contains the fraction q
Contains(x, q) == Lo(x) * q.den <= q.num * One /\ q.num * One <= Hi(x) * q.den

\* C6 amended: at both precisions the enclosure of every characteristic
\* contains the exact distance, so the two enclosures always intersect.
C6_BothEnclose ==
    (pc = "done" /\ prevKind = "prec") =>
        \A k \in Chars :
            /\ Contains(prev[k], ExactSum(k, Dim))
            /\ Contains(dist[k], ExactSum(k, Dim))
            /\ Max(Lo(prev[k]), Lo(dist[k])) <= Min(Hi(prev[k]), Hi(dist[k]))

C6_Witness ==
    /\ pc = "done" /\ prevKind = "prec"
    /\ \E k \in Chars : ~Within(dist[k], prev[k]) /\ dist[k].rad < prev[k].rad

(***************************************************************************)
(* acb_theta_dist_a0 with the iterations of the characteristic loop handed *)
(* to ParThreads worker threads, each running lines 37-40 statement by     *)
(* statement on the locals of the one call. tpc[k] is the position of   *)
(* iteration k; first is the iteration that started first; overlap records  *)
(* that some body started while another was under way.                     *)
(***************************************************************************)
InitPar ==
    /\ InitDist
    /\ \/ tau = DiagTau(<<3 * One>>, 0)
       \/ tau = DiagTau(<<One, 2 * One>>, 0) /\ \A i \in 1..Len(z) : z[i].im.mid = 0
    /\ \A i \in 1..Len(z) : z[i].re.mid = 0
    /\ prec = PrecMax
    /\ IdlePar /\ IdleRest

InBody(k) == tpc[k] \in {"char", "add", "mul"}

ParSetup ==
    /\ Setup
    /\ tpc' = [k \in 0..(NSlots(acb_mat_nrows(tau)) - 1) |-> "todo"]
    /\ UNCHANGED <<overlap, first>>

ParUnchanged == UNCHANGED <<tau, z, prec, Yinv, cho, v, a, pc, prev, prevKind>>

\* line 37: acb_theta_char_get_arb(w, a, g)
ParCharGet(k) ==
    /\ pc = "loop" /\ tpc[k] = "todo"
    /\ Cardinality({j \in DOMAIN tpc : InBody(j)}) < ParThreads
    /\ w' = acb_theta_char_get_arb(k, acb_mat_nrows(tau))
    /\ tpc' = [tpc EXCEPT ![k] = "char"]
    /\ overlap' = (overlap \/ \E j \in DOMAIN tpc : j # k /\ InBody(j))
    /\ first' = (IF first = -1 THEN k ELSE first)
    /\ ParUnchanged /\ UNCHANGED <<dist, writes>>

\* line 38: _arb_vec_add(w, v, w, g, prec)
ParAdd(k) ==
    /\ pc = "loop" /\ tpc[k] = "char"
    /\ w' = _arb_vec_add(v, w, acb_mat_nrows(tau), prec)
    /\ tpc' = [tpc EXCEPT ![k] = "add"]
    /\ ParUnchanged /\ UNCHANGED <<dist, writes, overlap, first>>

\* line 39: arb_mat_vector_mul_col(w, cho, w, prec)
ParMul(k) ==
    /\ pc = "loop" /\ tpc[k] = "add"
    /\ w' = arb_mat_vector_mul_col(cho, w, prec)
    /\ tpc' = [tpc EXCEPT ![k] = "mul"]
    /\ ParUnchanged /\ UNCHANGED <<dist, writes, overlap, first>>

\* line 40: acb_theta_dist_lat(&dist[a], w, cho, prec)
ParDistLat(k) ==
    /\ pc = "loop" /\ tpc[k] = "mul"
    /\ SlotOf(k) \in DistSlots
    /\ dist' = [dist EXCEPT ![SlotOf(k)] = acb_theta_dist_lat(w, cho, prec)]
    /\ writes' = [writes EXCEPT ![SlotOf(k)] = @ + 1]
    /\ tpc' = [tpc EXCEPT ![k] = "done"]
    /\ ParUnchanged /\ UNCHANGED <<w, overlap, first>>

\* every iteration has finished: lines 43-46
ParJoin ==
    /\ pc = "loop"
    /\ \A k \in DOMAIN tpc : tpc[k] = "done"
    /\ Yinv' = Cleared /\ cho' = Cleared /\ v' = Cleared /\ w' = Cleared
    /\ pc' = "done"
    /\ UNCHANGED <<tau, z, prec, a, dist, writes, prev, prevKind, tpc, overlap, first>>

NextPar ==
    \/ ParSetup /\ UNCHANGED restVars
    \/ \E k \in DOMAIN tpc : ParCharGet(k) /\ UNCHANGED restVars
    \/ \E k \in DOMAIN tpc : ParAdd(k) /\ UNCHANGED restVars
    \/ \E k \in DOMAIN tpc : ParMul(k) /\ UNCHANGED restVars
    \/ \E k \in DOMAIN tpc : ParDistLat(k) /\ UNCHANGED restVars
    \/ ParJoin /\ UNCHANGED restVars

SpecPar == InitPar /\ [][NextPar]_vars

\* the output of the sequential loop, slot by slot
SequentialOutput(k) ==
    DistOfChar(k, SetupV(arb_mat_inv(acb_mat_get_imag(tau), prec), z, prec),
               acb_theta_eld_cho(tau, prec))

\* C2 as stated: the loop bodies run in any interleaving across threads,
\* without locking, yield the output of the sequential order.
C2_AnyInterleaving ==
    pc = "done" => \A k \in Chars : dist[k] = SequentialOutput(k)

\* C2 amended: Yinv, cho and v are not written during the loop and
\* iteration k writes, of the output, only slot k, once; the scratch vector
\* w is shared by all iterations, and when no body starts while another is
\* under way the output is that of the sequential order, whatever the order.
C2_WholeBodiesAnyOrder ==
    /\ pc = "loop" =>
          /\ Yinv = arb_mat_inv(acb_mat_get_imag(tau), prec)
          /\ cho = acb_theta_eld_cho(tau, prec)
          /\ v = SetupV(arb_mat_inv(acb_mat_get_imag(tau), prec), z, prec)
          /\ \A k \in DOMAIN tpc : writes[k] = (IF tpc[k] = "done" THEN 1 ELSE 0)
    /\ \A k \in DistSlots \ Chars : writes[k] = 0 /\ dist[k] = Unset
    /\ (pc = "done" /\ ~overlap) => \A k \in Chars : dist[k] = SequentialOutput(k)
    /\ (pc = "loop" /\ ~overlap) =>
          \A k \in DOMAIN tpc : tpc[k] = "done" => dist[k] = SequentialOutput(k)

C2_Witness ==
    /\ pc = "done" /\ ~overlap /\ Dim = 2
    /\ first = 3
    /\ \A k \in Chars : writes[k] = 1
    /\ \E k \in Chars : dist[k] # dist[0]

(***************************************************************************)
(* _padic_log_bound(v, N, prime), src/padic/log.c.                         *)
(***************************************************************************)
\* largest signed long
LongMax == Pow2(FLINT_BITS - 1) - 1

\* floor(log_b(n)) for n >= 1
RECURSIVE n_flog(_, _)
n_flog(n, b) == IF n < b THEN 0 ELSE 1 + n_flog(n \div b, b)

\* ceil(log_b(n)) for n >= 1: the least r with b^r >= n
RECURSIVE ClogFrom(_, _, _, _)
ClogFrom(n, b, r, t) == IF t >= n THEN r ELSE ClogFrom(n, b, r + 1, t * b)

n_clog(n, b) == ClogFrom(n, b, 0, 1)

\* ord_p(i) for i # 0
RECURSIVE Ord(_, _)
Ord(i, p) == IF i % p # 0 THEN 0 ELSE 1 + Ord(i \div p, p)

fmpz_fits_si(p) == p <= LongMax

\* the primes tried; the largest ones do not fit a signed long
LbPrimes == {2, 3, 5, 67, 131}

\* line 63: N is too large
LbTooLarge(N) == N >= Pow2(FLINT_BITS - 2)

\* line 73
LbC(vv, N, p) == N - n_flog(vv, p)

\* line 74: the numerator and the first b
LbNumer(vv, N, p) == (LbC(vv, N, p) + n_clog(LbC(vv, N, p), p) + 1) + (vv - 1)

\* line 78
LbT(b, vv, p) == b * vv - n_clog(b, p)

\* variant of the value returned from inside the loop: b instead of b + 1
LbFoundLow(b) == b

\* line 81: the value returned from inside the loop
LbFound(b) == b + 1

InitLb ==
    /\ lb_N \in 2..(Pow2(FLINT_BITS - 2) + 2)
    /\ lb_v \in 1..(lb_N - 1)
    /\ lb_p \in LbPrimes
    /\ lb_b = 0 /\ lb_c = 0 /\ lb_ret = 0
    /\ lb_pc = "entry"
    /\ lb_ovf = FALSE
    /\ InitDistIdle /\ IdlePar /\ IdlePl /\ IdleCa /\ IdleFz

LbInputs == UNCHANGED <<lb_v, lb_N, lb_p, distVars, parVars, plVars, caVars, fzVars>>

\* lines 63-67: the exception
LbAbort ==
    /\ lb_pc = "entry"
    /\ LbTooLarge(lb_N)
    /\ lb_pc' = "aborted"
    /\ LbInputs /\ UNCHANGED <<lb_b, lb_c, lb_ret, lb_ovf>>

\* lines 69-74: the prime fits a signed long
LbSmallPrime ==
    /\ lb_pc = "entry"
    /\ ~LbTooLarge(lb_N)
    /\ fmpz_fits_si(lb_p)
    /\ lb_c' = LbC(lb_v, lb_N, lb_p)
    /\ lb_b' = LbNumer(lb_v, lb_N, lb_p) \div lb_v
    /\ lb_ovf' = (LbNumer(lb_v, lb_N, lb_p) > LongMax)
    /\ lb_pc' = "loop"
    /\ LbInputs /\ UNCHANGED lb_ret

\* lines 76-82, t >= N: the loop goes on
LbLoopContinue ==
    /\ lb_pc = "loop"
    /\ lb_b - 1 >= 2
    /\ LbT(lb_b - 1, lb_v, lb_p) >= lb_N
    /\ lb_b' = lb_b - 1
    /\ lb_ovf' = (lb_ovf \/ (lb_b - 1) * lb_v > LongMax)
    /\ LbInputs /\ UNCHANGED <<lb_c, lb_ret, lb_pc>>

\* lines 76-82, t < N: return b + 1
LbLoopReturn ==
    /\ lb_pc = "loop"
    /\ lb_b - 1 >= 2
    /\ LbT(lb_b - 1, lb_v, lb_p) < lb_N
    /\ lb_b' = lb_b - 1
    /\ lb_ovf' = (lb_ovf \/ (lb_b - 1) * lb_v > LongMax)
    /\ lb_ret' = LbFound(lb_b - 1)
    /\ lb_pc' = "returned"
    /\ LbInputs /\ UNCHANGED lb_c

\* lines 76, 84: the loop runs out, return 2
LbLoopEnd ==
    /\ lb_pc = "loop"
    /\ ~(lb_b - 1 >= 2)
    /\ lb_b' = lb_b - 1
    /\ lb_ret' = 2
    /\ lb_pc' = "returned"
    /\ LbInputs /\ UNCHANGED <<lb_c, lb_ovf>>

\* lines 86-89: the prime does not fit a signed long
LbBigPrime ==
    /\ lb_pc = "entry"
    /\ ~LbTooLarge(lb_N)
    /\ ~fmpz_fits_si(lb_p)
    /\ lb_ret' = (lb_N + lb_v - 1) \div lb_v
    /\ lb_pc' = "returned"
    /\ LbInputs /\ UNCHANGED <<lb_b, lb_c, lb_ovf>>

NextLb ==
    LbAbort \/ LbSmallPrime \/ LbLoopContinue \/ LbLoopReturn \/ LbLoopEnd \/ LbBigPrime

SpecLogBound == InitLb /\ [][NextLb]_vars

\* C8: for a prime that fits a signed long and 1 <= v < N < 2^(FLINT_BITS-2)
\* the returned b is >= 2 and i*v - ord_p(i) >= N for every i >= b (checked
\* up to 2N, beyond which i - log_2(i) >= N), and no intermediate value in
\* the computation exceeds a signed long.
C8_LogBound ==
    (fmpz_fits_si(lb_p) /\ lb_v >= 1 /\ lb_v < lb_N /\ lb_N < Pow2(FLINT_BITS - 2)) =>
        /\ ~lb_ovf
        /\ lb_pc = "returned" =>
              /\ lb_ret >= 2
              /\ \A i \in lb_ret..(2 * lb_N) : i * lb_v - Ord(i, lb_p) >= lb_N

C8_Witness ==
    /\ lb_pc = "returned" /\ fmpz_fits_si(lb_p) /\ lb_p = 2 /\ lb_v = 1
    /\ lb_N = Pow2(FLINT_BITS - 2) - 1
    /\ lb_ret > lb_N

(***************************************************************************)
(* padic_log(rop, op, ctx), src/padic/log.c.  A padic_t is a record         *)
(* [u, v]: the unit u and the valuation v, zero being [u = 0, v = 0].  The  *)
(* context holds the prime p and the precision N.                           *)
(***************************************************************************)
RECURSIVE IPow(_, _)
IPow(b, e) == IF e <= 0 THEN 1 ELSE b * IPow(b, e - 1)

Padic(u, vv) == [u |-> u, v |-> vv]

padic_zero == Padic(0, 0)

padic_val(x) == x.v

\* the integer a p-adic number of non-negative valuation stands for
padic_get_fmpz(x, p) == x.u * IPow(p, x.v)

\* b^e modulo m, 0 <= b < m
RECURSIVE PowMod(_, _, _)
PowMod(b, e, m) == IF e = 0 THEN 1 % m ELSE (b * PowMod(b, e - 1, m)) % m

\* the inverse of a unit modulo m
InvMod(u, m) == CHOOSE t \in 0..(m - 1) : (t * u) % m = 1 % m

\* the pure value of _padic_log_bound for a prime that fits a word
RECURSIVE LbScan(_, _, _, _)
LbScan(b, vv, N, p) ==
    IF b < 2 THEN 2
    ELSE IF LbT(b, vv, p) < N THEN LbFound(b)
    ELSE LbScan(b - 1, vv, N, p)

LogBound(vv, N, p) == LbScan((LbNumer(vv, N, p) \div vv) - 1, vv, N, p)

\* the i-th term y^i / i of the series modulo p^N
LogTerm(y, i, p, N) ==
    LET k == Ord(i, p)
        m == IPow(p, N + k)
        yi == PowMod(y % m, i, m) \div IPow(p, k)
    IN  (yi * InvMod((i \div IPow(p, k)) % IPow(p, N), IPow(p, N))) % IPow(p, N)

\* _padic_log(z, y, v, p, N): z = - sum_{i >= 1} y^i / i mod p^N
_padic_log(y, vv, p, N) ==
    LET b == LogBound(vv, N, p)
        S == SumTo(SeqOf(LAMBDA i : LogTerm(y, i, p, N), b - 1), b - 1)
    IN  (-S) % IPow(p, N)

\* _padic_canonicalise: move the powers of p from the unit to the valuation
_padic_canonicalise(x, p) ==
    IF x.u = 0 THEN padic_zero
    ELSE Padic(x.u \div IPow(p, Ord(x.u, p)), x.v + Ord(x.u, p))

\* lines 139-141: x = 1 - op
PlX(op, p) == -(padic_get_fmpz(op, p) - 1)

\* variant of the line 157 test without the special case p = 2
PlConvergesAnyP(vv, p) == vv >= 1

\* line 157: the series converges
PlConverges(vv, p) == vv >= 2 \/ (p # 2 /\ vv >= 1)

\* line 159: the result vanishes modulo p^N
PlVanishes(vv, N) == vv >= N

PlPrimes == {2, 3, 5}

\* values of a padic_t of valuation >= -1; the caller may hand over an
\* element made in a context of precision N + 1
PadicValues(p, N) ==
    {padic_zero} \cup
    {Padic(u, e) : u \in {t \in 1..(IPow(p, N + 1) - 1) : t % p # 0}, e \in -1..(N - 1)}

InitPl ==
    /\ pl_p \in PlPrimes
    /\ pl_N \in 1..PadicNMax
    /\ pl_op \in {x \in PadicValues(pl_p, pl_N) :
                     x.u < (IF x.v < 0 THEN IPow(pl_p, pl_N) ELSE IPow(pl_p, pl_N + 1 - x.v))}
    /\ pl_rop \in {padic_zero, Padic(1, 0), pl_op}
    /\ pl_rop0 = pl_rop
    /\ pl_ans = -1
    /\ pl_pc = "entry"
    /\ pl_call = <<>>
    /\ InitDistIdle /\ IdlePar /\ IdleLb /\ IdleCa /\ IdleFz

PlFrame == UNCHANGED <<pl_p, pl_N, pl_op, pl_rop0, distVars, parVars, lbVars, caVars, fzVars>>

\* lines 128-131: negative valuation
PlNegative ==
    /\ pl_pc = "entry"
    /\ padic_val(pl_op) < 0
    /\ pl_ans' = 0
    /\ pl_pc' = "returned"
    /\ PlFrame /\ UNCHANGED <<pl_rop, pl_call>>

\* lines 134-147, 177-178: op = 1
PlOne ==
    /\ pl_pc = "entry"
    /\ ~(padic_val(pl_op) < 0)
    /\ PlX(pl_op, pl_p) = 0
    /\ pl_rop' = padic_zero
    /\ pl_ans' = 1
    /\ pl_pc' = "returned"
    /\ PlFrame /\ UNCHANGED pl_call

\* lines 134-162, 169, 177-178: the series converges and the result is zero
\* modulo p^N
PlZeroModPN ==
    /\ pl_pc = "entry"
    /\ ~(padic_val(pl_op) < 0)
    /\ PlX(pl_op, pl_p) # 0
    /\ LET x == PlX(pl_op, pl_p)
           vv == Ord(x, pl_p)
       IN  /\ PlConverges(vv, pl_p)
           /\ PlVanishes(vv, pl_N)
    /\ pl_rop' = padic_zero
    /\ pl_ans' = 1
    /\ pl_pc' = "returned"
    /\ PlFrame /\ UNCHANGED pl_call

\* lines 134-159, 163-169, 177-178: the series converges, _padic_log
\* computes the unit
PlSeries ==
    /\ pl_pc = "entry"
    /\ ~(padic_val(pl_op) < 0)
    /\ PlX(pl_op, pl_p) # 0
    /\ LET x == PlX(pl_op, pl_p)
           vv == Ord(x, pl_p)
       IN  /\ PlConverges(vv, pl_p)
           /\ ~PlVanishes(vv, pl_N)
           /\ pl_call' = [y |-> x, v |-> vv, p |-> pl_p, N |-> pl_N]
           /\ pl_rop' = _padic_canonicalise(Padic(_padic_log(x, vv, pl_p, pl_N), 0), pl_p)
    /\ pl_ans' = 1
    /\ pl_pc' = "returned"
    /\ PlFrame

\* lines 134-157, 171-174, 177-178: the series does not converge
PlDiverges ==
    /\ pl_pc = "entry"
    /\ ~(padic_val(pl_op) < 0)
    /\ PlX(pl_op, pl_p) # 0
    /\ ~PlConverges(Ord(PlX(pl_op, pl_p), pl_p), pl_p)
    /\ pl_ans' = 0
    /\ pl_pc' = "returned"
    /\ PlFrame /\ UNCHANGED <<pl_rop, pl_call>>

NextPl == PlNegative \/ PlOne \/ PlZeroModPN \/ PlSeries \/ PlDiverges

SpecPadicLog == InitPl /\ [][NextPl]_vars

\* the valuation of 1 - op, for op # 1 of non-negative valuation
OrdOneMinus == Ord(1 - padic_get_fmpz(pl_op, pl_p), pl_p)

\* the least valuation of 1 - op for which the series converges
MinOrd == IF pl_p = 2 THEN 2 ELSE 1

\* p^N divides x - y
CongruentModPN(x, y) == (x - y) % IPow(pl_p, pl_N) = 0

CA_FIELD_ID_QQ == "QQ"

CaFieldIds == {CA_FIELD_ID_QQ, "QQ_I", "K"}

T_TRUE == "T_TRUE"

T_FALSE == "T_FALSE"

T_UNKNOWN == "T_UNKNOWN"

RECURSIVE GCD(_, _)
GCD(m, n) == IF n = 0 THEN Abs(m) ELSE GCD(n, m % n)

CA_FMPQ(x) == [num |-> x.num, den |-> x.den]

\* fmpq_equal: both are canonical, so the components are compared
fmpq_equal(q1, q2) == q1.num = q2.num /\ q1.den = q2.den

\* variant of the line 17 test that looks at x only
CaOnlyX(x, y) == x.field = CA_FIELD_ID_QQ

\* line 17
CaBothQQ(x, y) == x.field = CA_FIELD_ID_QQ /\ y.field = CA_FIELD_ID_QQ

\* lines 14-23
ca_check_equal(x, y) ==
    IF CaBothQQ(x, y)
    THEN (IF fmpq_equal(CA_FMPQ(x), CA_FMPQ(y)) THEN T_TRUE ELSE T_FALSE)
    ELSE T_UNKNOWN

CaValues ==
    {[field |-> f, num |-> n, den |-> d] :
        f \in CaFieldIds, n \in (-CaNumMax)..CaNumMax, d \in 1..CaDenMax}

InitCa ==
    /\ ca_x \in {x \in CaValues : GCD(x.num, x.den) = 1}
    /\ ca_y \in {y \in CaValues : GCD(y.num, y.den) = 1}
    /\ ca_x0 = ca_x /\ ca_y0 = ca_y
    /\ ca_res = "none"
    /\ ca_pc = "entry"
    /\ InitDistIdle /\ IdlePar /\ IdleLb /\ IdlePl /\ IdleFz

CaFrame == UNCHANGED <<ca_x, ca_y, ca_x0, ca_y0, distVars, parVars, lbVars, plVars, fzVars>>

\* lines 17-20: both in QQ, the answer is definite
CaDefinite ==
    /\ ca_pc = "entry"
    /\ CaBothQQ(ca_x, ca_y)
    /\ ca_res' = ca_check_equal(ca_x, ca_y)
    /\ ca_pc' = "returned"
    /\ CaFrame

\* line 22
CaUnknown ==
    /\ ca_pc = "entry"
    /\ ~CaBothQQ(ca_x, ca_y)
    /\ ca_res' = ca_check_equal(ca_x, ca_y)
    /\ ca_pc' = "returned"
    /\ CaFrame

NextCa == CaDefinite \/ CaUnknown

SpecCa == InitCa /\ [][NextCa]_vars

InQQ(x) == x.field = CA_FIELD_ID_QQ

SameRational(x, y) == x.num * y.den = y.num * x.den

\* C10: ca_check_equal returns T_TRUE only for two elements of QQ with equal
\* values, T_FALSE only for two elements of QQ with different values,
\* T_UNKNOWN whenever one of them is not in QQ; the answer for (y, x) is the
\* same; x and y are not modified.
C10_CheckEqual ==
    ca_pc = "returned" =>
        /\ ca_res \in {T_TRUE, T_FALSE, T_UNKNOWN}
        /\ ca_res = T_TRUE => InQQ(ca_x) /\ InQQ(ca_y) /\ SameRational(ca_x, ca_y)
        /\ ca_res = T_FALSE => InQQ(ca_x) /\ InQQ(ca_y) /\ ~SameRational(ca_x, ca_y)
        /\ ~(InQQ(ca_x) /\ InQQ(ca_y)) => ca_res = T_UNKNOWN
        /\ ca_res = ca_check_equal(ca_y, ca_x)
        /\ ca_x = ca_x0 /\ ca_y = ca_y0

C10_Witness ==
    /\ ca_pc = "returned" /\ ca_res = T_UNKNOWN
    /\ InQQ(ca_x) /\ ~InQQ(ca_y) /\ ca_x.num = ca_y.num /\ ca_x.den = ca_y.den

(***************************************************************************)
(* The fq_zech neg test program, src/fq_zech/test/t-neg.c.  An element of   *)
(* a field of q elements is the exponent e of a generator, 0 <= e < q - 1,  *)
(* or q - 1 for zero; the context holds the table of Zech logarithms.       *)
(***************************************************************************)
\* the elements of GF(p^n) as integers: the digits base p are the
\* coefficients of a polynomial in the generator
RECURSIVE DigitsAdd(_, _, _)
DigitsAdd(x, y, p) ==
    IF x = 0 /\ y = 0 THEN 0
    ELSE ((x + y) % p) + p * DigitsAdd(x \div p, y \div p, p)

RECURSIVE DigitsScale(_, _, _)
DigitsScale(c, x, p) ==
    IF x = 0 THEN 0 ELSE ((c * x) % p) + p * DigitsScale(c, x \div p, p)

FieldNeg(x, p) == DigitsScale(p - 1, x, p)

FieldSub(x, y, p) == DigitsAdd(x, FieldNeg(y, p), p)

\* the fields: p, the degree n, and the defining relation of the generator
\* (gen^n = red for n > 1, gen = red for n = 1)
FzFields ==
    { [p |-> 2, n |-> 1, q |-> 2, red |-> 1], [p |-> 3, n |-> 1, q |-> 3, red |-> 2],
      [p |-> 2, n |-> 2, q |-> 4, red |-> 3], [p |-> 5, n |-> 1, q |-> 5, red |-> 2],
      [p |-> 7, n |-> 1, q |-> 7, red |-> 3], [p |-> 2, n |-> 3, q |-> 8, red |-> 3],
      [p |-> 3, n |-> 2, q |-> 9, red |-> 4] }

\* x times the generator
TimesGen(x, F) ==
    IF F.n = 1 THEN (x * F.red) % F.p
    ELSE DigitsAdd((x * F.p) % F.q, DigitsScale((x * F.p) \div F.q, F.red, F.p), F.p)

RECURSIVE GenPowers(_, _)
GenPowers(F, k) ==
    IF k = 0 THEN <<1>>
    ELSE LET P == GenPowers(F, k - 1) IN Append(P, TimesGen(P[k], F))

\* the exponent of a field element, q - 1 for zero
LogOf(x, pow, qm1) ==
    IF x = 0 THEN qm1 ELSE (CHOOSE k \in 1..qm1 : pow[k] = x) - 1

\* fq_zech_ctx_init: pow[e + 1] = gen^e and zech[e + 1] = log(1 + gen^e)
fq_zech_ctx(F) ==
    LET qm1 == F.q - 1
        pow == GenPowers(F, qm1 - 1)
    IN  [ p |-> F.p, q |-> F.q, qm1 |-> qm1,
          qm1o2 |-> IF F.p = 2 THEN 0 ELSE qm1 \div 2,
          pow |-> pow,
          zech |-> SeqOf(LAMBDA k : LogOf(DigitsAdd(1, pow[k], F.p), pow, qm1), qm1) ]

FzContexts == {fq_zech_ctx(F) : F \in FzFields}

fq_zech_is_zero(x, ctx) == x = ctx.qm1

fq_zech_equal(x, y) == x = y

fq_zech_neg(x, ctx) ==
    IF fq_zech_is_zero(x, ctx) THEN ctx.qm1
    ELSE IF x + ctx.qm1o2 >= ctx.qm1 THEN x + ctx.qm1o2 - ctx.qm1 ELSE x + ctx.qm1o2

fq_zech_add(x, y, ctx) ==
    IF fq_zech_is_zero(x, ctx) THEN y
    ELSE IF fq_zech_is_zero(y, ctx) THEN x
    ELSE LET index == ctx.zech[Abs(x - y) + 1]
             c == Min(x, y)
         IN  IF index = ctx.qm1 THEN ctx.qm1 ELSE (index + c) % ctx.qm1

fq_zech_sub(x, y, ctx) == fq_zech_add(x, fq_zech_neg(y, ctx), ctx)

\* the field element an fq_zech_t stands for
FzElem(x, ctx) == IF fq_zech_is_zero(x, ctx) THEN 0 ELSE ctx.pow[x + 1]

\* fq_zech_randtest: any element
FzElements(ctx) == 0..ctx.qm1

\* lines 61-62: c = -b with a separate output, b = -b in place
FzAliasOut(b, ctx) == [c |-> fq_zech_neg(b, ctx), b |-> fq_zech_neg(b, ctx)]

\* line 94
FzSubLhs(x, y, ctx) == fq_zech_sub(x, y, ctx)

\* variant of lines 95-96 without the negation
FzSubRhsNoNeg(x, y, ctx) == fq_zech_add(x, y, ctx)

\* lines 95-96
FzSubRhs(x, y, ctx) == fq_zech_add(x, fq_zech_neg(y, ctx), ctx)

InitFz ==
    /\ fz_ctx = <<>>
    /\ fz_a = -1 /\ fz_b = -1 /\ fz_c = -1 /\ fz_c1 = -1 /\ fz_c2 = -1
    /\ fz_i = 0
    /\ fz_j = 0
    /\ fz_pc = "ctx"
    /\ fz_result = -1
    /\ InitDistIdle /\ IdlePar /\ IdleLb /\ IdlePl /\ IdleCa

FzOthers == UNCHANGED <<distVars, parVars, lbVars, plVars, caVars>>

\* lines 45-47: the next context
FzCtxRandtest ==
    /\ fz_pc = "ctx"
    /\ fz_j < FzCtxRuns
    /\ fz_ctx' \in FzContexts
    /\ fz_i' = 0
    /\ fz_pc' = "alias"
    /\ FzOthers /\ UNCHANGED <<fz_a, fz_b, fz_c, fz_c1, fz_c2, fz_j, fz_result>>

\* lines 50-79: one run of the aliasing check
FzAliasIter ==
    /\ fz_pc = "alias"
    /\ fz_i < FzAliasRuns
    /\ \E x \in FzElements(fz_ctx) :
          LET out == FzAliasOut(x, fz_ctx)
              res == fq_zech_equal(out.b, out.c)
          IN  /\ fz_a' = x
              /\ fz_b' = out.b
              /\ fz_c' = out.c
              /\ fz_result' = (IF res THEN 1 ELSE 0)
              /\ fz_pc' = (IF res THEN "alias" ELSE "abort")
              /\ fz_i' = (IF res THEN fz_i + 1 ELSE fz_i)
    /\ FzOthers /\ UNCHANGED <<fz_ctx, fz_c1, fz_c2, fz_j>>

\* lines 50, 76-79, 82: the aliasing loop ends, its locals are gone
FzAliasDone ==
    /\ fz_pc = "alias"
    /\ ~(fz_i < FzAliasRuns)
    /\ fz_a' = -1 /\ fz_b' = -1 /\ fz_c' = -1
    /\ fz_i' = 0
    /\ fz_pc' = "sub"
    /\ FzOthers /\ UNCHANGED <<fz_ctx, fz_c1, fz_c2, fz_j, fz_result>>

\* lines 82-115: one run of the check a - b = a + (-b)
FzSubIter ==
    /\ fz_pc = "sub"
    /\ fz_i < FzSubRuns
    /\ \E x \in FzElements(fz_ctx), y \in FzElements(fz_ctx) :
          LET c1 == FzSubLhs(x, y, fz_ctx)
              c2 == FzSubRhs(x, y, fz_ctx)
              res == fq_zech_equal(c1, c2)
          IN  /\ fz_a' = x
              /\ fz_b' = y
              /\ fz_c1' = c1
              /\ fz_c2' = c2
              /\ fz_result' = (IF res THEN 1 ELSE 0)
              /\ fz_pc' = (IF res THEN "sub" ELSE "abort")
              /\ fz_i' = (IF res THEN fz_i + 1 ELSE fz_i)
    /\ FzOthers /\ UNCHANGED <<fz_ctx, fz_c, fz_j>>

\* lines 82, 110-117: the loop ends, its locals are gone, the context is
\* cleared
FzSubDone ==
    /\ fz_pc = "sub"
    /\ ~(fz_i < FzSubRuns)
    /\ fz_a' = -1 /\ fz_b' = -1 /\ fz_c1' = -1 /\ fz_c2' = -1
    /\ fz_ctx' = <<>>
    /\ fz_j' = fz_j + 1
    /\ fz_i' = 0
    /\ fz_pc' = "ctx"
    /\ FzOthers /\ UNCHANGED <<fz_c, fz_result>>

\* lines 45, 120-123: PASS
FzPass ==
    /\ fz_pc = "ctx"
    /\ ~(fz_j < FzCtxRuns)
    /\ fz_pc' = "pass"
    /\ FzOthers /\ UNCHANGED <<fz_ctx, fz_a, fz_b, fz_c, fz_c1, fz_c2, fz_i, fz_j, fz_result>>

NextFz ==
    FzCtxRandtest \/ FzAliasIter \/ FzAliasDone \/ FzSubIter \/ FzSubDone \/ FzPass

SpecZech == InitFz /\ [][NextFz]_vars

=============================================================================
